---------------------------- MODULE Spec2Model ----------------------------
(***************************************************************************)
(* Model of the helper scripts of a tape-backup rotation:                  *)
(*   get_next_tape.py            calculate_backup_pool and main            *)
(*   get_skip_days.py            main (skip-day generator)                 *)
(*   get_vic_public_holidays.py  main (holiday merge)                      *)
(*                                                                         *)
(* A datetime.date is modelled by its proleptic Gregorian ordinal          *)
(* (date.toordinal(): 0001-01-01 is 1), so that "+ timedelta(days=1)" is   *)
(* "+ 1" and the comparison of dates is the comparison of integers.  The   *)
(* fields .year/.month/.day, .weekday() and the '%Y-%m-%d' text of a date  *)
(* are computed from the ordinal the way the datetime module does.  A      *)
(* 'YYYY-MM-DD' string is modelled by the triple <<year, month, day>> of   *)
(* the numbers its three fields spell.                                     *)
(***************************************************************************)
EXTENDS Integers, Sequences, FiniteSets

VARIABLES
    \* ---- get_next_tape.py
    today,            \* datetime.date.today() of the run
    holidays,         \* get_public_holidays(args.holiday_file): the dates read
    pool,             \* main's local `pool`
    nt_pc,            \* position of get_next_tape main
    nt_calls,         \* the functions main has called so far, in order
    bacula_cmd,       \* the shell commands get_bacula_next_tape has run
    bconsole_out,     \* the line bconsole printed for the command
    tape_info,        \* main's local `tape_info`
    tape_label,       \* main's local `tape_label`
    emails,           \* the (subject, message_body) given to send_email
    smtp_result,      \* how send_email's SMTP session ended
    \* ---- the sources both holiday scripts read
    ics_status,       \* response.status_code of requests.get(url)
    ics_events,       \* the DTSTART dates of the calendar's VEVENTs
    custom_yaml,      \* the custom holidays file: whether it exists, and the
                      \* str() of the entries yaml.safe_load gives
    \* ---- get_skip_days.py
    start_date_str,   \* --start_date (NoArg when not given)
    end_date_str,     \* --end_date (NoArg when not given)
    source_holidays,  \* main's local `source_holidays`
    start_date,       \* main's local `start_date`
    end_date,         \* main's local `end_date`
    valid_dates,      \* main's local `valid_dates`
    prior_txt,        \* holidays_txt_file as it was before the run
    holidays_txt,     \* holidays_txt_file: whether it exists, and its lines
    sd_pc,            \* position of get_skip_days main
    \* ---- get_vic_public_holidays.py
    all_holidays,     \* main's local `all_holidays`
    vic_prior_txt,    \* holidays_txt_file as it was before the run
    vic_txt,          \* holidays_txt_file: whether it exists, and its lines
    vic_pc            \* position of get_vic_public_holidays main

tape_vars == <<nt_calls, bacula_cmd, bconsole_out, tape_info, tape_label,
               emails, smtp_result>>
nt_vars  == <<today, holidays, pool, nt_pc, tape_vars>>
src_vars == <<ics_status, ics_events, custom_yaml>>
sd_vars  == <<start_date_str, end_date_str, source_holidays, start_date,
              end_date, valid_dates, prior_txt, holidays_txt, sd_pc>>
vic_vars == <<all_holidays, vic_prior_txt, vic_txt, vic_pc>>
vars     == <<nt_vars, src_vars, sd_vars, vic_vars>>

None == "None"

\* argparse's default=None of an argument that takes a 'YYYY-MM-DD' text
NoArg == << >>

\* A text file of one 'YYYY-MM-DD' per line, and a path where no file is
NoFile == [exists |-> FALSE, lines |-> << >>]
File(lines) == [exists |-> TRUE, lines |-> lines]

\* A Python str is the sequence of its pieces of text; NoneStr is the None that
\* stands where a str may
NoneStr == [is_none |-> TRUE, text |-> << >>]
Str(text) == [is_none |-> FALSE, text |-> text]

\* The custom holidays file: missing, or the entries yaml.safe_load gives
NoYaml == [exists |-> FALSE, entries |-> {}]
Yaml(entries) == [exists |-> TRUE, entries |-> entries]

-----------------------------------------------------------------------------
(* datetime.date arithmetic, as the datetime module computes it.            *)

_is_leap(year) ==
    year % 4 = 0 /\ (year % 100 # 0 \/ year % 400 = 0)

_days_before_year(year) ==
    LET y == year - 1
    IN  y * 365 + (y \div 4) - (y \div 100) + (y \div 400)

_days_in_month(year, month) ==
    IF month = 2 /\ _is_leap(year) THEN 29
    ELSE <<31, 28, 31, 30, 31, 30, 31, 31, 30, 31, 30, 31>>[month]

_days_before_month(year, month) ==
    <<0, 31, 59, 90, 120, 151, 181, 212, 243, 273, 304, 334>>[month]
        + (IF month > 2 /\ _is_leap(year) THEN 1 ELSE 0)

\* date(year, month, day).toordinal()
_ymd2ord(year, month, day) ==
    _days_before_year(year) + _days_before_month(year, month) + day

\* date.fromordinal(n) as <<year, month, day>>
_ord2ymd(ordinal) ==
    LET n0   == ordinal - 1
        n400 == n0 \div 146097
        r400 == n0 % 146097
        n100 == r400 \div 36524
        r100 == r400 % 36524
        n4   == r100 \div 1461
        r4   == r100 % 1461
        n1   == r4 \div 365
        n    == r4 % 365
        year == n400 * 400 + 1 + n100 * 100 + n4 * 4 + n1
        leapyear == n1 = 3 /\ (n4 # 24 \/ n100 = 3)
        month0 == (n + 50) \div 32
        preceding0 == <<0, 31, 59, 90, 120, 151, 181, 212, 243, 273, 304, 334>>[month0]
                        + (IF month0 > 2 /\ leapyear THEN 1 ELSE 0)
        month == IF preceding0 > n THEN month0 - 1 ELSE month0
        preceding == IF preceding0 > n
                     THEN preceding0
                            - (<<31, 28, 31, 30, 31, 30, 31, 31, 30, 31, 30, 31>>[month]
                               + (IF month = 2 /\ leapyear THEN 1 ELSE 0))
                     ELSE preceding0
    IN  IF n1 = 4 \/ n100 = 4
        THEN <<year - 1, 12, 31>>
        ELSE <<year, month, n - preceding + 1>>

\* date.weekday(): Monday is 0, Sunday is 6
weekday(d) == (d + 6) % 7

\* date.month and date.day
month_of(d) == _ord2ymd(d)[2]
day_of(d)   == _ord2ymd(d)[3]

-----------------------------------------------------------------------------
(* get_next_tape.py                                                         *)

\* The inputs of the classifier: every `today` of PoolDays consecutive days
\* from 2025-01-01, and every holiday list over the days today-1 .. today+HolidaySpan.
PoolDays    == 365
HolidaySpan == 2
PoolFirstDay == _ymd2ord(2025, 1, 1)
PoolToday    == PoolFirstDay .. (PoolFirstDay + PoolDays - 1)
PoolHolidays(t) == SUBSET ((t - 1) .. (t + HolidaySpan))

is_public_holiday_today(t, hs) == (t - 1) \in hs

is_public_holiday(t, hs) == t \in hs

calculate_backup_pool_monthly_first(t, hs) ==
    LET backup_day == t + 1
    IN  IF weekday(backup_day) = 6 \/ is_public_holiday(backup_day, hs)
        THEN None
        ELSE IF weekday(backup_day) = 5
             THEN IF day_of(backup_day) <= 7
                  THEN "Monthly"
                  ELSE IF month_of(backup_day) \in {2, 8}
                       THEN "Yearly"
                       ELSE "Weekly"
             ELSE "Daily"

calculate_backup_pool_no_shift(t, hs) ==
    LET backup_day == t
    IN  IF weekday(backup_day) = 6 \/ is_public_holiday(backup_day, hs)
        THEN None
        ELSE IF weekday(backup_day) = 5
             THEN IF day_of(backup_day) <= 7 /\ month_of(backup_day) \in {2, 8}
                  THEN "Yearly"
                  ELSE IF day_of(backup_day) <= 7
                       THEN "Monthly"
                       ELSE "Weekly"
             ELSE "Daily"

calculate_backup_pool_month_only(t, hs) ==
    LET backup_day == t + 1
    IN  IF weekday(backup_day) = 6 \/ is_public_holiday(backup_day, hs)
        THEN None
        ELSE IF weekday(backup_day) = 5
             THEN IF month_of(backup_day) \in {2, 8}
                  THEN "Yearly"
                  ELSE IF day_of(backup_day) <= 7
                       THEN "Monthly"
                       ELSE "Weekly"
             ELSE "Daily"

calculate_backup_pool(t, hs) ==
    LET backup_day == t + 1
    IN  IF weekday(backup_day) = 6 \/ is_public_holiday(backup_day, hs)
        THEN None
        ELSE IF weekday(backup_day) = 5
             THEN IF day_of(backup_day) <= 7 /\ month_of(backup_day) \in {2, 8}
                  THEN "Yearly"
                  ELSE IF day_of(backup_day) <= 7
                       THEN "Monthly"
                       ELSE "Weekly"
             ELSE "Daily"

\* main, lines 108-113: today, the holiday list and the pool
NextTapeClassify ==
    /\ nt_pc = "start"
    /\ pool' = calculate_backup_pool(today, holidays)
    /\ nt_pc' = "classified"
    /\ nt_calls' = Append(nt_calls, "calculate_backup_pool")
    /\ UNCHANGED <<today, holidays, bacula_cmd, bconsole_out, tape_info, tape_label,
                   emails, smtp_result, src_vars, sd_vars, vic_vars>>

\* The texts bconsole can print: at most MaxLineLen pieces of one line
MaxLineLen == 3
TierWords  == {"Daily", "Weekly", "Monthly", "Yearly"}
Digits     == {"0", "1", "2", "3", "4", "5", "6", "7", "8", "9"}
LinePieces == {"The next", " ", "Daily", "Yearly", "daily", "1"}
BconsoleLines == UNION {[1..n -> LinePieces] : n \in 0..MaxLineLen}

\* str.strip(): the text without its leading and trailing white space
strip(text) ==
    LET inked == {i \in 1..Len(text) : text[i] # " "}
    IN  IF inked = {} THEN << >>
        ELSE SubSeq(text, CHOOSE i \in inked : \A j \in inked : i <= j,
                          CHOOSE i \in inked : \A j \in inked : j <= i)

\* get_bacula_next_tape, line 53: the command for the pool
bacula_command(p) ==
    <<"echo \"list nextvol job=BackupCatalog pool=", p, "\" | bconsole | egrep \"The next\"">>

\* get_bacula_next_tape, lines 54-59: egrep prints the line when "The next"
\* is in it; otherwise it exits 1, check_output raises CalledProcessError and
\* the function returns None
get_bacula_next_tape(line) ==
    IF \E i \in 1..Len(line) : line[i] = "The next"
    THEN Str(strip(line))
    ELSE NoneStr

\* extract_tape_label: the leftmost tier name that digits follow, with all the
\* digits that follow it
extract_tape_label(text) ==
    LET starts == {i \in 1..(Len(text) - 1) :
                      text[i] \in TierWords /\ text[i + 1] \in Digits}
    IN  IF starts = {} THEN NoneStr
        ELSE LET first == CHOOSE i \in starts : \A j \in starts : i <= j
                 ends  == {k \in (first + 1)..Len(text) :
                              \A m \in (first + 1)..k : text[m] \in Digits}
                 last  == CHOOSE k \in ends : \A m \in ends : m <= k
             IN  Str(SubSeq(text, first, last))

\* Python's truth of a str or None
truthy(str) == ~str.is_none /\ str.text # << >>

\* get_formatted_date: time.strftime('%a %b %d %H:%M:%S %Z %Y') on the day of
\* the run; the time of day and the zone name are one piece each
digit(n) == <<"0", "1", "2", "3", "4", "5", "6", "7", "8", "9">>[n + 1]

get_formatted_date(d) ==
    LET ymd == _ord2ymd(d)
    IN  << <<"Mon", "Tue", "Wed", "Thu", "Fri", "Sat", "Sun">>[weekday(d) + 1], " ",
           <<"Jan", "Feb", "Mar", "Apr", "May", "Jun",
             "Jul", "Aug", "Sep", "Oct", "Nov", "Dec">>[ymd[2]], " ",
           digit(ymd[3] \div 10), digit(ymd[3] % 10), " ",
           "%H:%M:%S", " ", "%Z", " ",
           digit(ymd[1] \div 1000), digit((ymd[1] \div 100) % 10),
           digit((ymd[1] \div 10) % 10), digit(ymd[1] % 10) >>

\* main, lines 127-130: the subject
email_subject(label, formatted_date) ==
    IF truthy(label)
    THEN <<"Bacula next tape ">> \o label.text \o <<" (">> \o formatted_date \o <<")">>
    ELSE <<"Bacula next tape (">> \o formatted_date \o <<")">>

\* main, line 133: the message body
email_body(p, info) ==
    <<"The next tape for pool ", p, ": ">> \o info.text

\* main, lines 114-115: no pool, no backup today
NextTapeNoBackup ==
    /\ nt_pc = "classified"
    /\ pool = None
    /\ nt_pc' = "done"
    /\ UNCHANGED <<today, holidays, pool, tape_vars, src_vars, sd_vars, vic_vars>>

NextTapeQueryAnyPool ==
    /\ nt_pc = "classified"
    /\ \E line \in BconsoleLines :
          /\ bconsole_out' = line
          /\ tape_info' = get_bacula_next_tape(line)
    /\ bacula_cmd' = Append(bacula_cmd, bacula_command(pool))
    /\ nt_calls' = Append(nt_calls, "get_bacula_next_tape")
    /\ nt_pc' = "queried"
    /\ UNCHANGED <<today, holidays, pool, tape_label, emails, smtp_result,
                   src_vars, sd_vars, vic_vars>>

\* main, lines 117-118: the catalog is asked for the next volume of the pool
NextTapeQuery ==
    /\ nt_pc = "classified"
    /\ pool # None
    /\ \E line \in BconsoleLines :
          /\ bconsole_out' = line
          /\ tape_info' = get_bacula_next_tape(line)
    /\ bacula_cmd' = Append(bacula_cmd, bacula_command(pool))
    /\ nt_calls' = Append(nt_calls, "get_bacula_next_tape")
    /\ nt_pc' = "queried"
    /\ UNCHANGED <<today, holidays, pool, tape_label, emails, smtp_result,
                   src_vars, sd_vars, vic_vars>>

\* main, lines 137-138: no tape info, nothing is sent
NextTapeNoTapeInfo ==
    /\ nt_pc = "queried"
    /\ ~truthy(tape_info)
    /\ nt_pc' = "done"
    /\ UNCHANGED <<today, holidays, pool, tape_vars, src_vars, sd_vars, vic_vars>>

\* main, lines 119-121: the label of the tape info
NextTapeExtract ==
    /\ nt_pc = "queried"
    /\ truthy(tape_info)
    /\ tape_label' = extract_tape_label(tape_info.text)
    /\ nt_calls' = Append(nt_calls, "extract_tape_label")
    /\ nt_pc' = "extracted"
    /\ UNCHANGED <<today, holidays, pool, bacula_cmd, bconsole_out, tape_info, emails,
                   smtp_result, src_vars, sd_vars, vic_vars>>

\* main, lines 123-136: the subject, the body and send_email, whose SMTP
\* session ends with the mail sent or with an exception it prints
NextTapeEmail ==
    /\ nt_pc = "extracted"
    /\ emails' = Append(emails,
                        [subject |-> email_subject(tape_label, get_formatted_date(today)),
                         message_body |-> email_body(pool, tape_info)])
    /\ smtp_result' \in {"sent", "error"}
    /\ nt_calls' = Append(nt_calls, "send_email")
    /\ nt_pc' = "done"
    /\ UNCHANGED <<today, holidays, pool, bacula_cmd, bconsole_out, tape_info, tape_label,
                   src_vars, sd_vars, vic_vars>>

-----------------------------------------------------------------------------
(* Idle values of the variables a specification does not use.               *)

TapeUnset ==
    /\ nt_calls = << >> /\ bacula_cmd = << >> /\ bconsole_out = << >>
    /\ tape_info = NoneStr /\ tape_label = NoneStr
    /\ emails = << >> /\ smtp_result = "none"

NextTapeIdle ==
    /\ holidays = {} /\ pool = "unset" /\ nt_pc = "idle"
    /\ TapeUnset

SourcesIdle ==
    /\ ics_status = 200 /\ ics_events = {} /\ custom_yaml = NoYaml

SkipDaysIdle ==
    /\ start_date_str = NoArg /\ end_date_str = NoArg
    /\ source_holidays = {} /\ start_date = 0 /\ end_date = 0
    /\ valid_dates = {} /\ prior_txt = NoFile /\ holidays_txt = NoFile
    /\ sd_pc = "idle"

VicIdle ==
    /\ all_holidays = {} /\ vic_prior_txt = NoFile /\ vic_txt = NoFile
    /\ vic_pc = "idle"

-----------------------------------------------------------------------------
(* Specification of get_next_tape.py                                        *)

PoolInit ==
    /\ today \in PoolToday
    /\ holidays \in PoolHolidays(today)
    /\ pool = "unset"
    /\ nt_pc = "start"
    /\ TapeUnset
    /\ SourcesIdle /\ SkipDaysIdle /\ VicIdle

PoolNext == NextTapeClassify

PoolSpec == PoolInit /\ [][PoolNext]_vars

\* A run of main: every `today` of TapeDays consecutive days from Friday
\* 2025-01-03 (the eve of a first Saturday) and the holiday lists over today
\* and tomorrow.
TapeDays     == 29
TapeFirstDay == _ymd2ord(2025, 1, 3)
TapeToday    == TapeFirstDay .. (TapeFirstDay + TapeDays - 1)
TapeHolidays(t) == SUBSET {t, t + 1}

TapeInit ==
    /\ today \in TapeToday
    /\ holidays \in TapeHolidays(today)
    /\ pool = "unset"
    /\ nt_pc = "start"
    /\ TapeUnset
    /\ SourcesIdle /\ SkipDaysIdle /\ VicIdle

TapeNext ==
    \/ NextTapeClassify
    \/ NextTapeNoBackup
    \/ NextTapeQuery
    \/ NextTapeNoTapeInfo
    \/ NextTapeExtract
    \/ NextTapeEmail

TapeSpec == TapeInit /\ [][TapeNext]_vars

-----------------------------------------------------------------------------
(* Text of dates: '%Y-%m-%d', str(date) and sorted().                       *)

\* date.strftime('%Y-%m-%d') and str(date): the three fields of the text
strftime(d) == _ord2ymd(d)

\* Whether datetime.strptime(s, '%Y-%m-%d') accepts the text
strptime_ok(s) ==
    /\ s[1] \in 1..9999
    /\ s[2] \in 1..12
    /\ s[3] >= 1 /\ s[3] <= _days_in_month(s[1], s[2])

\* datetime.strptime(s, '%Y-%m-%d').date(), for a text it accepts
strptime(s) == _ymd2ord(s[1], s[2], s[3])

\* max() of a non-empty set of dates
max(S) == CHOOSE x \in S : \A y \in S : y <= x

min(S) == CHOOSE x \in S : \A y \in S : x <= y

\* sorted() of a set of dates, as a list
RECURSIVE sorted(_)
sorted(S) ==
    IF S = {} THEN <<>>
    ELSE <<min(S)>> \o sorted(S \ {min(S)})

\* the lines written for the dates of S, in the order of sorted(S)
written_lines(S) == [i \in 1..Cardinality(S) |-> strftime(sorted(S)[i])]

-----------------------------------------------------------------------------
(* get_skip_days.py                                                         *)

\* The window the holidays and the explicit bounds are drawn from: SkipDays
\* consecutive days from Wednesday 2025-11-26; at most MaxPublic events in the
\* calendar feed and MaxCustom entries in the custom holidays file.
SkipDays   == 6
MaxPublic  == 1
MaxCustom  == 1
SkipFirstDay == _ymd2ord(2025, 11, 26)
SkipWindow   == SkipFirstDay .. (SkipFirstDay + SkipDays - 1)
SkipToday    == {SkipFirstDay, SkipFirstDay + 2}
BadDateStr   == <<2025, 11, 31>>
DateStrs     == {strftime(d) : d \in SkipWindow}
PriorFiles   == {NoFile, File(<<strftime(SkipFirstDay - 5)>>)}

\* fetch_public_holidays: the events on or after today, or nothing when the
\* download failed
skip_fetch_public_holidays ==
    IF ics_status = 200
    THEN {event_date \in ics_events : event_date >= today}
    ELSE {}

\* load_custom_holidays: every entry of the file as a date
skip_load_custom_holidays ==
    IF custom_yaml.exists
    THEN IF custom_yaml.entries # {}
         THEN {strptime(holiday) : holiday \in custom_yaml.entries}
         ELSE {}
    ELSE {}

scan_loop_weekends(start, end, hs) ==
    {current_date \in start..end : (current_date - 1) \in hs}

scan_loop_last_workday(start, end, hs) ==
    {current_date \in start..end :
        LET previous_day == IF weekday(current_date) = 0
                            THEN current_date - 3
                            ELSE current_date - 1
        IN  weekday(current_date) < 5 /\ previous_day \in hs}

\* main, lines 157-164: the scan of current_date = start .. end, collecting
\* every current_date that is no weekend day and whose previous day is a holiday
scan_loop(start, end, hs) ==
    {current_date \in start..end :
        LET previous_day == current_date - 1
        IN  weekday(current_date) < 5 /\ previous_day \in hs}

friday_holidays_unbounded(start, end, hs) ==
    {holiday \in hs : weekday(holiday) = 4}

\* main, lines 167-170: the source holidays that fall on a Friday
friday_holidays(start, end, hs) ==
    {holiday \in hs : weekday(holiday) = 4 /\ holiday >= start /\ holiday <= end}

resolve_end_day_after(start, hs) ==
    IF end_date_str # NoArg
    THEN strptime(end_date_str)
    ELSE IF hs # {} THEN max(hs) + 1 ELSE start + 365

\* main, lines 141-152: the range
resolve_start == IF start_date_str # NoArg THEN strptime(start_date_str) ELSE today

resolve_end(start, hs) ==
    IF end_date_str # NoArg
    THEN strptime(end_date_str)
    ELSE IF hs # {} THEN max(hs) ELSE start + 365

\* main, lines 154-170
compute_valid_dates(start, end, hs) ==
    scan_loop(start, end, hs) \cup friday_holidays(start, end, hs)

write_holidays_txt_append(before, dates) ==
    IF dates # {} THEN File(before.lines \o written_lines(dates)) ELSE before

\* main, lines 172-179: the file after the run
write_holidays_txt(before, dates) ==
    IF dates # {} THEN File(written_lines(dates)) ELSE before

\* One run of main with arguments strptime accepts.
SkipDaysMain ==
    /\ sd_pc = "start"
    /\ (start_date_str # NoArg => strptime_ok(start_date_str))
    /\ (end_date_str # NoArg => strptime_ok(end_date_str))
    /\ LET hs    == skip_fetch_public_holidays \cup skip_load_custom_holidays
           start == resolve_start
           end   == resolve_end(start, hs)
           dates == compute_valid_dates(start, end, hs)
       IN  /\ source_holidays' = hs
           /\ start_date' = start
           /\ end_date' = end
           /\ valid_dates' = dates
           /\ holidays_txt' = write_holidays_txt(holidays_txt, dates)
           /\ sd_pc' = IF dates # {} THEN "written" ELSE "no_dates"
    /\ UNCHANGED <<start_date_str, end_date_str, prior_txt, nt_vars, src_vars, vic_vars>>

\* One run of main with a --start_date or --end_date strptime rejects: the
\* ValueError of line 142 or 147 ends the run before anything is computed.
SkipDaysMainValueError ==
    /\ sd_pc = "start"
    /\ \/ (start_date_str # NoArg /\ ~strptime_ok(start_date_str))
       \/ (end_date_str # NoArg /\ ~strptime_ok(end_date_str))
    /\ source_holidays' = skip_fetch_public_holidays \cup skip_load_custom_holidays
    /\ sd_pc' = "ValueError"
    /\ UNCHANGED <<start_date_str, end_date_str, start_date, end_date, valid_dates,
                   prior_txt, holidays_txt, nt_vars, src_vars, vic_vars>>

-----------------------------------------------------------------------------
(* Specification of get_skip_days.py                                        *)

SourcesInit ==
    /\ ics_status \in {200, 404}
    /\ ics_events \in {E \in SUBSET SkipWindow :
                          Cardinality(E) <= MaxPublic /\ (ics_status # 200 => E = {})}
    /\ custom_yaml \in {NoYaml} \cup {Yaml({strftime(d) : d \in C}) :
                          C \in {X \in SUBSET SkipWindow : Cardinality(X) <= MaxCustom}}

SkipInit ==
    /\ today \in SkipToday
    /\ SourcesInit
    /\ start_date_str \in {NoArg, BadDateStr} \cup DateStrs
    /\ end_date_str \in {NoArg, BadDateStr} \cup DateStrs
    /\ prior_txt \in PriorFiles
    /\ holidays_txt = prior_txt
    /\ source_holidays = {} /\ start_date = 0 /\ end_date = 0 /\ valid_dates = {}
    /\ sd_pc = "start"
    /\ NextTapeIdle
    /\ VicIdle

SkipNext == SkipDaysMain \/ SkipDaysMainValueError

SkipSpec == SkipInit /\ [][SkipNext]_vars

-----------------------------------------------------------------------------
(* get_vic_public_holidays.py                                               *)

\* The order of 'YYYY-MM-DD' texts as strings: field by field, left to right
str_le(a, b) ==
    \/ a[1] < b[1]
    \/ (a[1] = b[1] /\ a[2] < b[2])
    \/ (a[1] = b[1] /\ a[2] = b[2] /\ a[3] <= b[3])

min_str(S) == CHOOSE x \in S : \A y \in S : str_le(x, y)

\* sorted() of a set of 'YYYY-MM-DD' texts, as a list
RECURSIVE sorted_strs(_)
sorted_strs(S) ==
    IF S = {} THEN <<>>
    ELSE <<min_str(S)>> \o sorted_strs(S \ {min_str(S)})

\* fetch_public_holidays: the text of the events that are not in the past and
\* not on a weekend, or nothing when the download failed
vic_fetch_public_holidays ==
    IF ics_status = 200
    THEN {strftime(event_date) :
            event_date \in {e \in ics_events : e >= today /\ weekday(e) \notin {5, 6}}}
    ELSE {}

\* load_custom_holidays: str() of every entry of the file
vic_load_custom_holidays ==
    IF custom_yaml.exists
    THEN IF custom_yaml.entries # {}
         THEN {holiday : holiday \in custom_yaml.entries}
         ELSE {}
    ELSE {}

\* main, lines 133-140: the file after the run
vic_write_holidays_txt(before, hs) ==
    IF hs # {} THEN File(sorted_strs(hs)) ELSE before

\* One run of main
VicMain ==
    /\ vic_pc = "start"
    /\ LET public_holidays == vic_fetch_public_holidays
           custom_holidays == vic_load_custom_holidays
           merged          == public_holidays \cup custom_holidays
       IN  /\ all_holidays' = merged
           /\ vic_txt' = vic_write_holidays_txt(vic_txt, merged)
           /\ vic_pc' = IF merged # {} THEN "written" ELSE "no_holidays"
    /\ UNCHANGED <<vic_prior_txt, nt_vars, src_vars, sd_vars>>

-----------------------------------------------------------------------------
(* Specification of get_vic_public_holidays.py                              *)

VicInit ==
    /\ today \in SkipToday
    /\ SourcesInit
    /\ vic_prior_txt \in PriorFiles
    /\ vic_txt = vic_prior_txt
    /\ all_holidays = {}
    /\ vic_pc = "start"
    /\ NextTapeIdle
    /\ SkipDaysIdle

VicNext == VicMain

VicSpec == VicInit /\ [][VicNext]_vars

-----------------------------------------------------------------------------
(* Claims about calculate_backup_pool, checked under PoolSpec.              *)

Tiers == {"Daily", "Weekly", "Monthly", "Yearly"}

IsSunday(d)   == weekday(d) = 6
IsSaturday(d) == weekday(d) = 5
IsFirstWeek(d) == _ord2ymd(d)[3] \in 1..7
IsFebOrAug(d)  == _ord2ymd(d)[2] = 2 \/ _ord2ymd(d)[2] = 8

\* The reference decision on a backup day, one case per outcome.
ReferenceTier(backupDay, H) ==
    CASE IsSunday(backupDay) \/ backupDay \in H -> None
      [] ~IsSunday(backupDay) /\ backupDay \notin H /\ IsSaturday(backupDay)
            /\ IsFirstWeek(backupDay) /\ IsFebOrAug(backupDay) -> "Yearly"
      [] ~IsSunday(backupDay) /\ backupDay \notin H /\ IsSaturday(backupDay)
            /\ IsFirstWeek(backupDay) /\ ~IsFebOrAug(backupDay) -> "Monthly"
      [] ~IsSunday(backupDay) /\ backupDay \notin H /\ IsSaturday(backupDay)
            /\ ~IsFirstWeek(backupDay) -> "Weekly"
      [] ~IsSunday(backupDay) /\ backupDay \notin H /\ ~IsSaturday(backupDay)
            -> "Daily"

\* C1: for every today and holiday set, the pool main gets from
\* calculate_backup_pool is the reference decision on today + 1 day, and it is
\* one of None, Daily, Weekly, Monthly, Yearly.
C1_PoolIsReferenceTier ==
    nt_pc = "classified" =>
        /\ pool = ReferenceTier(today + 1, holidays)
        /\ pool \in Tiers \cup {None}

\* A first Saturday outside February and August, not a holiday, with holidays
\* on other days: Monthly.
C1_Witness ==
    /\ nt_pc = "classified"
    /\ IsSaturday(today + 1) /\ IsFirstWeek(today + 1) /\ ~IsFebOrAug(today + 1)
    /\ holidays = {today, today + 2}
    /\ pool = "Monthly"

\* C2: when today + 1 day is a Saturday of the first seven days of February or
\* August the pool is never Monthly, and it is Yearly whenever that Saturday is
\* not a holiday.
C2_FirstSaturdayFebAugIsYearly ==
    (nt_pc = "classified" /\ IsSaturday(today + 1) /\ IsFirstWeek(today + 1)
        /\ IsFebOrAug(today + 1)) =>
        /\ pool # "Monthly"
        /\ (today + 1 \notin holidays => pool = "Yearly")

C2_Witness ==
    /\ nt_pc = "classified"
    /\ _ord2ymd(today + 1) = <<2025, 8, 2>>
    /\ today + 1 \notin holidays
    /\ pool = "Yearly"

\* C3: when today + 1 day is a Saturday after the 7th that is not a holiday, the
\* pool is Weekly, in February and August as in every other month.
C3_LaterSaturdayIsWeekly ==
    (nt_pc = "classified" /\ IsSaturday(today + 1) /\ ~IsFirstWeek(today + 1)
        /\ today + 1 \notin holidays) =>
        pool = "Weekly"

C3_Witness ==
    /\ nt_pc = "classified"
    /\ _ord2ymd(today + 1) = <<2025, 8, 9>>
    /\ today + 1 \notin holidays
    /\ pool = "Weekly"

\* C4: the pool depends on the holiday list only through the membership of
\* today + 1 day: every other holiday list that agrees with the run's list on
\* today + 1 day gives the pool the run got.
C4_OnlyTomorrowsHolidayMatters ==
    nt_pc = "classified" =>
        \A H2 \in PoolHolidays(today) :
            ((today + 1 \in H2) <=> (today + 1 \in holidays)) =>
                calculate_backup_pool(today, H2) = pool

\* Holidays today and the day after tomorrow, none tomorrow: still Daily.
C4_Witness ==
    /\ nt_pc = "classified"
    /\ holidays = {today - 1, today, today + 2}
    /\ pool = "Daily"

-----------------------------------------------------------------------------
(* Claims about the skip-day generator, checked under SkipSpec.             *)

SkipRan == sd_pc \in {"written", "no_dates"}

\* Every date a run can touch: the window the holidays come from, the range
\* the run scanned, and a week on either side of both.
CheckedDates ==
    LET first == IF start_date < SkipFirstDay THEN start_date ELSE SkipFirstDay
        last  == IF end_date > SkipFirstDay + SkipDays THEN end_date
                 ELSE SkipFirstDay + SkipDays
    IN  (first - 7) .. (last + 7)

IsWorkday(d) == weekday(d) \in {0, 1, 2, 3, 4}
IsFriday(d)  == weekday(d) = 4

InRuleA(d) ==
    start_date <= d /\ d <= end_date /\ IsWorkday(d) /\ (d - 1) \in source_holidays

InRuleB(d) ==
    d \in source_holidays /\ IsFriday(d) /\ start_date <= d /\ d <= end_date

\* The lines of the file read back as dates
LinesAscending(lines) ==
    /\ \A i \in 1..Len(lines) : strptime_ok(lines[i])
    /\ \A i \in 1..Len(lines) : \A j \in 1..Len(lines) :
           i < j => strptime(lines[i]) < strptime(lines[j])

\* C5: the dates a run computes are exactly those of Rule A and Rule B for its
\* range and holiday set, and the lines it writes are dates in strictly
\* ascending order, none twice.
C5_SkipDaysAreRuleAUnionRuleB ==
    SkipRan =>
        /\ valid_dates \subseteq CheckedDates
        /\ \A d \in CheckedDates : d \in valid_dates <=> (InRuleA(d) \/ InRuleB(d))
        /\ (sd_pc = "written" => LinesAscending(holidays_txt.lines))

\* Holidays on Friday 2025-11-28 and Sunday 2025-11-30: Rule B gives the Friday,
\* Rule A the Monday, written in that order.
C5_Witness ==
    /\ sd_pc = "written"
    /\ source_holidays = {_ymd2ord(2025, 11, 28), _ymd2ord(2025, 11, 30)}
    /\ holidays_txt.lines = << <<2025, 11, 28>>, <<2025, 12, 1>> >>

LoneFridayHolidayInRange(h) ==
    /\ SkipRan
    /\ source_holidays = {h}
    /\ IsFriday(h)
    /\ start_date <= h /\ h + 3 <= end_date

\* C6 as stated: with a lone Friday holiday h, and h and h + 3 days in range,
\* the result holds h and the following Monday h + 3 days.
C6_LoneFridayAddsFollowingMonday ==
    \A h \in SkipWindow :
        LoneFridayHolidayInRange(h) => (h \in valid_dates /\ (h + 3) \in valid_dates)

\* C6 amended: with a lone Friday holiday h, and h and h + 3 days in range, the
\* result holds h (Rule B) and does not hold the following Monday h + 3 days.
C6_LoneFridayAddsOnlyTheFriday ==
    \A h \in SkipWindow :
        LoneFridayHolidayInRange(h) => (h \in valid_dates /\ (h + 3) \notin valid_dates)

C6_Witness ==
    /\ LoneFridayHolidayInRange(_ymd2ord(2025, 11, 28))
    /\ end_date = _ymd2ord(2025, 12, 1)
    /\ sd_pc = "written"
    /\ holidays_txt.lines = << <<2025, 11, 28>> >>

ExplicitReversedRange ==
    /\ sd_pc # "start"
    /\ start_date_str # NoArg /\ strptime_ok(start_date_str)
    /\ end_date_str # NoArg /\ strptime_ok(end_date_str)
    /\ _ymd2ord(end_date_str[1], end_date_str[2], end_date_str[3])
         < _ymd2ord(start_date_str[1], start_date_str[2], start_date_str[3])

\* C7: with explicit bounds and end < start the run computes the empty set and
\* ends without an error, whatever the holidays.
C7_ReversedRangeGivesEmptySet ==
    ExplicitReversedRange =>
        /\ sd_pc = "no_dates"
        /\ valid_dates = {}

\* A reversed range around a Friday holiday
C7_Witness ==
    /\ ExplicitReversedRange
    /\ _ymd2ord(2025, 11, 28) \in source_holidays
    /\ end_date < _ymd2ord(2025, 11, 28) /\ _ymd2ord(2025, 11, 28) < start_date
    /\ sd_pc = "no_dates"

\* The file holds exactly the dates of S, one per line, ascending
FileHoldsExactly(f, S) ==
    /\ Len(f.lines) = Cardinality(S)
    /\ LinesAscending(f.lines)
    /\ {strptime(f.lines[i]) : i \in 1..Len(f.lines)} = S

\* C8 as stated: after every run the file holds exactly the set computed in
\* that run, the empty set included.
C8_FileAlwaysOverwritten ==
    SkipRan => FileHoldsExactly(holidays_txt, valid_dates)

\* C8 amended: after every run that computes a non-empty set the file exists
\* and holds exactly that set, whatever it held before; when the computed set
\* is empty the file is left as it was before the run.
C8_FileOverwrittenUnlessEmpty ==
    SkipRan =>
        /\ (valid_dates # {} =>
               holidays_txt.exists /\ FileHoldsExactly(holidays_txt, valid_dates))
        /\ (valid_dates = {} => holidays_txt = prior_txt)

\* A run that replaces the lines an earlier run left
C8_Witness ==
    /\ sd_pc = "written"
    /\ prior_txt.exists /\ prior_txt.lines # << >>
    /\ holidays_txt # prior_txt
    /\ FileHoldsExactly(holidays_txt, valid_dates)

\* C10: without --end_date the scan ends at the latest source holiday, so no
\* computed date is later than it; with no source holiday nothing is computed.
C10_DefaultEndIsLatestHoliday ==
    (SkipRan /\ end_date_str = NoArg) =>
        /\ (source_holidays # {} =>
               /\ end_date \in source_holidays
               /\ \A h \in source_holidays : h <= end_date
               /\ \A d \in valid_dates : \A h \in source_holidays :
                      (\A g \in source_holidays : g <= h) => d <= h)
        /\ (source_holidays = {} => valid_dates = {})

\* The latest holiday is Thursday 2025-11-27: the Friday after it is not computed.
C10_Witness ==
    /\ SkipRan /\ end_date_str = NoArg
    /\ source_holidays = {_ymd2ord(2025, 11, 27)}
    /\ start_date <= _ymd2ord(2025, 11, 27)
    /\ _ymd2ord(2025, 11, 28) \notin valid_dates

-----------------------------------------------------------------------------
(* Claims about the holiday merge, checked under VicSpec.                   *)

\* C9: every date the holiday merge writes is on or after today and falls on
\* Monday..Friday, whichever source it comes from.
C9_WrittenHolidaysAreUpcomingWorkdays ==
    vic_pc = "written" =>
        \A i \in 1..Len(vic_txt.lines) :
            /\ strptime_ok(vic_txt.lines[i])
            /\ strptime(vic_txt.lines[i]) >= today
            /\ IsWorkday(strptime(vic_txt.lines[i]))

-----------------------------------------------------------------------------
(* Claims about a run of get_next_tape main, checked under TapeSpec.        *)

MainOrder ==
    <<"calculate_backup_pool", "get_bacula_next_tape", "extract_tape_label", "send_email">>

\* A tier name with a digit right after it somewhere in the text
HasTapeLabel(text) ==
    \E i \in 1..Len(text) :
        /\ i + 1 <= Len(text)
        /\ text[i] \in Tiers
        /\ text[i + 1] \in {"0", "1", "2", "3", "4", "5", "6", "7", "8", "9"}

QueryReturnedText == ~tape_info.is_none /\ Len(tape_info.text) > 0

\* C11: the calls of a run are a prefix of classify, catalog query, label
\* extraction, email, each at most once; the catalog is queried only with the
\* tier the classifier gave as pool, and never when it gave None, when no email
\* is attempted either; at the end an email was attempted exactly when the
\* query returned non-empty text, and its subject holds a tape label exactly
\* when extract_tape_label found one in that text.
C11_MainStepsInOrder ==
    /\ Len(nt_calls) <= Len(MainOrder)
    /\ \A i \in 1..Len(nt_calls) : nt_calls[i] = MainOrder[i]
    /\ Len(bacula_cmd) <= 1 /\ Len(emails) <= 1
    /\ (Len(bacula_cmd) = 1 <=> Len(nt_calls) >= 2)
    /\ (Len(emails) = 1 <=> Len(nt_calls) = 4)
    /\ (Len(bacula_cmd) = 1 =>
           /\ ReferenceTier(today + 1, holidays) \in Tiers
           /\ bacula_cmd[1][2] = ReferenceTier(today + 1, holidays))
    /\ ((nt_pc = "done" /\ ReferenceTier(today + 1, holidays) = None) =>
           (Len(bacula_cmd) = 0 /\ Len(emails) = 0))
    /\ (nt_pc = "done" => (Len(emails) = 1 <=> QueryReturnedText))
    /\ (Len(emails) = 1 =>
           /\ (HasTapeLabel(emails[1].subject) <=> ~tape_label.is_none)
           /\ (~tape_label.is_none <=> HasTapeLabel(tape_info.text)))

\* A Daily run whose catalog answer names the tape Daily1: the subject has it.
C11_Witness ==
    /\ nt_pc = "done"
    /\ nt_calls = MainOrder
    /\ pool = "Daily"
    /\ tape_info = Str(<<"The next", "Daily", "1">>)
    /\ tape_label = Str(<<"Daily", "1">>)
    /\ SubSeq(emails[1].subject, 1, 4) = <<"Bacula next tape ", "Daily", "1", " (">>

=============================================================================
